---- MODULE Spec2Model ----
(***************************************************************************)
(* Model of src/index.ts (rename-llm): main() snapshots the regular files  *)
(* of the target directory, obtains a rename plan from the LLM, validates  *)
(* it, asks the user, and applies the plan with fs.rename one operation at *)
(* a time.                                                                 *)
(*                                                                         *)
(* A file name and a path are sequences of segments: the string "../a" is  *)
(* <<"..", "a">>, the empty string is <<>>, an absolute path is the        *)
(* sequence of its segments from the root.  The filesystem is the set of   *)
(* paths of regular files and the set of paths of directories; it is       *)
(* writable and changed by this process only.  A plan is a sequence of     *)
(* RenameOperation values whose original and new are strings, as the       *)
(* interface declares them.                                                *)
(***************************************************************************)
EXTENDS Naturals, Sequences, FiniteSets

VARIABLES
    files,             \* filesystem: paths of the regular files
    dirs,              \* filesystem: paths of the directories
    pc,                \* position of main()
    onlyFiles,         \* the snapshot (index.ts:92)
    operations,        \* the plan parsed from the LLM's answer (index.ts:138)
    i,                 \* index of the current operation of the running for-of loop
    validationErrors,  \* index.ts:158
    newNames,          \* index.ts:159
    warnings,          \* the console.warn lines of index.ts:172, in order
    calls,             \* the fs.rename calls issued so far, with their results
    confirm,           \* the answer to the final prompt (index.ts:188), "unasked" before it
    result,            \* how main() ended
    run,               \* 1: the run of main(); 2: the plan executed a second time
    firstRun,          \* the calls of the first execution, once a second one started
    files0             \* the regular files when main() started

vars == <<files, dirs, pc, onlyFiles, operations, i, validationErrors, newNames,
          warnings, calls, confirm, result, run, firstRun, files0>>

-----------------------------------------------------------------------------
(* Bounds and the universe of inputs *)

\* The longest plan the LLM answers with.
MaxOps == 2

Root == <<>>
ParentDir == <<"w">>
TargetDir == <<"w", "d">>

\* The strings a plan is made of: "a", "b", "c", the empty string and "../a".
PlainNames == {<<"a">>, <<"b">>, <<"c">>}

Names == PlainNames \cup {<<>>, <<"..", "a">>}

Ops == [original : Names, new : Names]

Plans == UNION {[1..n -> Ops] : n \in 0..MaxOps}

-----------------------------------------------------------------------------
(* path.join and the filesystem calls *)

RECURSIVE Normalize(_, _)
Normalize(acc, rest) ==
    IF rest = <<>> THEN acc
    ELSE LET h == Head(rest) IN
         IF h = ".."
         THEN Normalize(IF acc = <<>> THEN <<>> ELSE SubSeq(acc, 1, Len(acc) - 1),
                        Tail(rest))
         ELSE IF h = "." \/ h = ""
         THEN Normalize(acc, Tail(rest))
         ELSE Normalize(Append(acc, h), Tail(rest))

PathJoin(dir, name) == Normalize(<<>>, dir \o name)

IsPrefix(p, q) == Len(p) <= Len(q) /\ SubSeq(q, 1, Len(p)) = p

Dirname(p) == SubSeq(p, 1, Len(p) - 1)

PathExists(p, fs, ds) == p \in fs \/ p \in ds

Reprefix(p, old, new) == new \o SubSeq(p, Len(old) + 1, Len(p))

MoveTree(S, old, new) ==
    {IF IsPrefix(old, p) THEN Reprefix(p, old, new) ELSE p : p \in S}

HasEntries(d, fs, ds) == \E p \in fs \cup ds : p # d /\ IsPrefix(d, p)

\* Variant: a rename that leaves the source in place (a copy).
RenameCopies(old, new, fs, ds) ==
    IF old \in fs /\ Dirname(new) \in ds /\ new \notin ds
    THEN [ok |-> TRUE, files |-> fs \cup {new}, dirs |-> ds]
    ELSE [ok |-> FALSE, files |-> fs, dirs |-> ds]

\* rename(2) as fs.rename calls it: the result and the filesystem after it.
\* An existing destination file is replaced; renaming a path to itself succeeds.
Rename(old, new, fs, ds) ==
    LET fail == [ok |-> FALSE, files |-> fs, dirs |-> ds] IN
    IF ~PathExists(old, fs, ds) THEN fail                       \* ENOENT
    ELSE IF old = Root \/ new = Root THEN fail                  \* EBUSY
    ELSE IF Dirname(new) \notin ds THEN fail                    \* ENOENT, ENOTDIR
    ELSE IF old = new THEN [ok |-> TRUE, files |-> fs, dirs |-> ds]
    ELSE IF old \in fs
    THEN IF new \in ds THEN fail                                \* EISDIR
         ELSE [ok |-> TRUE, files |-> (fs \ {old}) \cup {new}, dirs |-> ds]
    ELSE IF IsPrefix(old, new) THEN fail                        \* EINVAL
    ELSE IF new \in fs THEN fail                                \* ENOTDIR
    ELSE IF new \in ds /\ HasEntries(new, fs, ds) THEN fail     \* ENOTEMPTY
    ELSE [ok |-> TRUE, files |-> MoveTree(fs, old, new),
          dirs |-> MoveTree(ds \ {new}, old, new)]

-----------------------------------------------------------------------------
(* The checks of the validation loop *)

OriginalNotFound(op, snapshot) == op.original \notin snapshot

\* Variant: no duplicate check.
DuplicateTargetNever(op, seen) == FALSE

DuplicateTarget(op, seen) == op.new \in seen

\* Variant: only the other operations of the plan are searched.
TargetExistsWarningOther(op, ops, fs, ds) ==
    /\ PathExists(PathJoin(TargetDir, op.new), fs, ds)
    /\ ~\E k \in 1..Len(ops) : ops[k] # op /\ ops[k].original = op.new

TargetExistsWarning(op, ops, fs, ds) ==
    /\ PathExists(PathJoin(TargetDir, op.new), fs, ds)
    /\ ~\E k \in 1..Len(ops) : ops[k].original = op.new

NotFoundError(op) == [kind |-> "Original file not found", name |-> op.original]

DuplicateError(op) == [kind |-> "Duplicate target filename", name |-> op.new]

\* A validation error names the operation.
Flagged(op, errs) ==
    \E k \in 1..Len(errs) : errs[k] = NotFoundError(op) \/ errs[k] = DuplicateError(op)

\* Variant: only the operations no validation error names are submitted.
RECURSIVE SubmittedUnflagged(_, _)
SubmittedUnflagged(ops, errs) ==
    IF ops = <<>> THEN <<>>
    ELSE IF Flagged(Head(ops), errs) THEN SubmittedUnflagged(Tail(ops), errs)
    ELSE <<Head(ops)>> \o SubmittedUnflagged(Tail(ops), errs)

\* The operations the rename loop iterates over.
Submitted(ops, errs) == ops

-----------------------------------------------------------------------------
(* main() *)

EntriesOf(dir, S) == {p \in S : Len(p) = Len(dir) + 1 /\ IsPrefix(dir, p)}

Basename(p) == <<p[Len(p)]>>

Init ==
    /\ \E S \in SUBSET PlainNames, out \in SUBSET {ParentDir \o <<"a">>},
          sub \in SUBSET {TargetDir \o <<"c">>} :
          /\ (sub # {}) => (<<"c">> \notin S)
          /\ files = {PathJoin(TargetDir, n) : n \in S} \cup out
          /\ dirs = {Root, ParentDir, TargetDir} \cup sub
    /\ files0 = files
    /\ pc = "snapshot"
    /\ onlyFiles = {}
    /\ operations = <<>>
    /\ i = 0
    /\ validationErrors = <<>>
    /\ newNames = {}
    /\ warnings = <<>>
    /\ calls = <<>>
    /\ confirm = "unasked"
    /\ result = "running"
    /\ run = 1
    /\ firstRun = <<>>

Finish(how) == pc' = "done" /\ result' = how

\* readdir, stat, the isFile filter, and the return on an empty directory.
Snapshot ==
    /\ pc = "snapshot"
    /\ onlyFiles' = {Basename(p) : p \in EntriesOf(TargetDir, files)}
    /\ IF onlyFiles' = {} THEN Finish("no files") ELSE pc' = "query" /\ result' = result
    /\ UNCHANGED <<files, dirs, operations, i, validationErrors, newNames, warnings,
                   calls, confirm, run, firstRun, files0>>

\* The request to the LLM throws: the outer catch reports it and main() ends.
RequestFails ==
    /\ pc = "query"
    /\ Finish("error")
    /\ UNCHANGED <<files, dirs, onlyFiles, operations, i, validationErrors, newNames,
                   warnings, calls, confirm, run, firstRun, files0>>

\* The LLM answers with no content.
EmptyResponse ==
    /\ pc = "query"
    /\ Finish("empty response")
    /\ UNCHANGED <<files, dirs, onlyFiles, operations, i, validationErrors, newNames,
                   warnings, calls, confirm, run, firstRun, files0>>

\* The LLM's answer is not JSON.
ParseFailure ==
    /\ pc = "query"
    /\ Finish("parse failure")
    /\ UNCHANGED <<files, dirs, onlyFiles, operations, i, validationErrors, newNames,
                   warnings, calls, confirm, run, firstRun, files0>>

\* The LLM's answer parses; the return on an empty operation list.
Proposal ==
    /\ pc = "query"
    /\ \E plan \in Plans :
          /\ operations' = plan
          /\ IF Len(plan) = 0
             THEN Finish("no operations") /\ i' = i
             ELSE pc' = "validate" /\ i' = 1 /\ result' = result
    /\ UNCHANGED <<files, dirs, onlyFiles, validationErrors, newNames, warnings,
                   calls, confirm, run, firstRun, files0>>

\* Variant: the validation loop stops at the first error.
ValidateStepShortCircuit ==
    /\ pc = "validate"
    /\ i <= Len(operations)
    /\ LET op == operations[i] IN
          /\ validationErrors' = validationErrors
                \o (IF OriginalNotFound(op, onlyFiles) THEN <<NotFoundError(op)>> ELSE <<>>)
                \o (IF DuplicateTarget(op, newNames) THEN <<DuplicateError(op)>> ELSE <<>>)
          /\ newNames' = newNames \cup {op.new}
          /\ warnings' = IF TargetExistsWarning(op, operations, files, dirs)
                         THEN Append(warnings, op.new) ELSE warnings
    /\ i' = IF Len(validationErrors') > 0 THEN Len(operations) + 1 ELSE i + 1
    /\ UNCHANGED <<files, dirs, pc, onlyFiles, operations, calls, confirm, result, run,
                   firstRun, files0>>

\* One iteration of the validation loop.
ValidateStep ==
    /\ pc = "validate"
    /\ i <= Len(operations)
    /\ LET op == operations[i] IN
          /\ validationErrors' = validationErrors
                \o (IF OriginalNotFound(op, onlyFiles) THEN <<NotFoundError(op)>> ELSE <<>>)
                \o (IF DuplicateTarget(op, newNames) THEN <<DuplicateError(op)>> ELSE <<>>)
          /\ newNames' = newNames \cup {op.new}
          /\ warnings' = IF TargetExistsWarning(op, operations, files, dirs)
                         THEN Append(warnings, op.new) ELSE warnings
    /\ i' = i + 1
    /\ UNCHANGED <<files, dirs, pc, onlyFiles, operations, calls, confirm, result, run,
                   firstRun, files0>>

\* The loop is over: the gate on validationErrors.
ValidateDone ==
    /\ pc = "validate"
    /\ i > Len(operations)
    /\ pc' = IF Len(validationErrors) > 0 THEN "continueAnyway" ELSE "confirm"
    /\ UNCHANGED <<files, dirs, onlyFiles, operations, i, validationErrors, newNames,
                   warnings, calls, confirm, result, run, firstRun, files0>>

\* The user's answer to 'Validation errors found. ... continuing anyway?'
ContinueAnyway ==
    /\ pc = "continueAnyway"
    /\ \E answer \in BOOLEAN :
          IF answer THEN pc' = "confirm" /\ result' = result
          ELSE Finish("not continued")
    /\ UNCHANGED <<files, dirs, onlyFiles, operations, i, validationErrors, newNames,
                   warnings, calls, confirm, run, firstRun, files0>>

\* Variant: the rename loop runs whatever the answer.
ConfirmIgnored ==
    /\ pc = "confirm"
    /\ \E answer \in BOOLEAN :
          /\ confirm' = IF answer THEN "yes" ELSE "no"
          /\ pc' = "rename" /\ i' = 1 /\ result' = result
    /\ UNCHANGED <<files, dirs, onlyFiles, operations, validationErrors, newNames,
                   warnings, calls, run, firstRun, files0>>

\* The user's answer to 'Do you want to proceed with the renaming?'
Confirm ==
    /\ pc = "confirm"
    /\ \E answer \in BOOLEAN :
          /\ confirm' = IF answer THEN "yes" ELSE "no"
          /\ IF answer THEN pc' = "rename" /\ i' = 1 /\ result' = result
             ELSE Finish("cancelled") /\ i' = i
    /\ UNCHANGED <<files, dirs, onlyFiles, operations, validationErrors, newNames,
                   warnings, calls, run, firstRun, files0>>

\* Variant: the rename loop stops at the first failed rename.
RenameStepBreaks ==
    /\ pc = "rename"
    /\ i <= Len(Submitted(operations, validationErrors))
    /\ LET op == Submitted(operations, validationErrors)[i]
           oldPath == PathJoin(TargetDir, op.original)
           newPath == PathJoin(TargetDir, op.new)
           r == Rename(oldPath, newPath, files, dirs)
       IN /\ files' = r.files
          /\ dirs' = r.dirs
          /\ calls' = Append(calls, [op |-> op, oldPath |-> oldPath, newPath |-> newPath,
                                     ok |-> r.ok,
                                     existed |-> PathExists(newPath, files, dirs)])
          /\ i' = IF r.ok THEN i + 1 ELSE Len(operations) + 1
    /\ UNCHANGED <<pc, onlyFiles, operations, validationErrors, newNames, warnings,
                   confirm, result, run, firstRun, files0>>

\* One iteration of the rename loop: path.join twice, fs.rename, try/catch.
RenameStep ==
    /\ pc = "rename"
    /\ i <= Len(Submitted(operations, validationErrors))
    /\ LET op == Submitted(operations, validationErrors)[i]
           oldPath == PathJoin(TargetDir, op.original)
           newPath == PathJoin(TargetDir, op.new)
           r == Rename(oldPath, newPath, files, dirs)
       IN /\ files' = r.files
          /\ dirs' = r.dirs
          /\ calls' = Append(calls, [op |-> op, oldPath |-> oldPath, newPath |-> newPath,
                                     ok |-> r.ok,
                                     existed |-> PathExists(newPath, files, dirs)])
    /\ i' = i + 1
    /\ UNCHANGED <<pc, onlyFiles, operations, validationErrors, newNames, warnings,
                   confirm, result, run, firstRun, files0>>

\* The rename loop is over: 'Done.'
RenameDone ==
    /\ pc = "rename"
    /\ i > Len(Submitted(operations, validationErrors))
    /\ Finish("executed")
    /\ UNCHANGED <<files, dirs, onlyFiles, operations, i, validationErrors, newNames,
                   warnings, calls, confirm, run, firstRun, files0>>

AllApplied(cs) == \A k \in 1..Len(cs) : cs[k].ok

\* The rename loop run again on the same plan, after a run that applied
\* every operation.
Rerun ==
    /\ pc = "done"
    /\ result = "executed"
    /\ run = 1
    /\ AllApplied(calls)
    /\ run' = 2
    /\ firstRun' = calls
    /\ calls' = <<>>
    /\ pc' = "rename"
    /\ i' = 1
    /\ result' = "running"
    /\ UNCHANGED <<files, dirs, onlyFiles, operations, validationErrors, newNames,
                   warnings, confirm, files0>>

Next ==
    \/ Snapshot
    \/ RequestFails
    \/ EmptyResponse
    \/ ParseFailure
    \/ Proposal
    \/ ValidateStep
    \/ ValidateDone
    \/ ContinueAnyway
    \/ Confirm
    \/ RenameStep
    \/ RenameDone

Spec == Init /\ [][Next]_vars

NextRerun == Next \/ Rerun

SpecRerun == Init /\ [][NextRerun]_vars

-----------------------------------------------------------------------------
(* Properties *)

\* The validation loop has run over the whole plan.
Validated ==
    /\ Len(operations) > 0
    /\ pc \in {"continueAnyway", "confirm", "rename", "done"}

\* ... and nothing has been renamed yet: the disk is the one validation saw.
ValidatedUntouched == Len(operations) > 0 /\ pc \in {"continueAnyway", "confirm"}

OpsWith(P(_)) == {k \in 1..Len(operations) : P(operations[k])}

ErrorsEqual(e) == {k \in 1..Len(validationErrors) : validationErrors[k] = e}

WarningsNamed(n) == {k \in 1..Len(warnings) : warnings[k] = n}

SourcePath(op) == PathJoin(TargetDir, op.original)

TargetPath(op) == PathJoin(TargetDir, op.new)

C1_Inv ==
    /\ pc = "rename" => Len(calls) = i - 1
    /\ Len(calls) <= Len(operations)
    /\ \A k \in 1..Len(calls) :
          /\ calls[k].op = operations[k]
          /\ calls[k].oldPath = SourcePath(operations[k])
          /\ calls[k].newPath = TargetPath(operations[k])
    /\ (pc = "done" /\ result = "executed") => Len(calls) = Len(operations)

C1_Step ==
    (pc = "rename" /\ pc' = "rename") =>
        /\ Len(calls') = Len(calls) + 1
        /\ SubSeq(calls', 1, Len(calls)) = calls
        /\ ~calls'[Len(calls')].ok => (files' = files /\ dirs' = dirs)

C2_Original_AllSharersFlagged ==
    Validated =>
        \A n \in Names :
            LET sharers == OpsWith(LAMBDA op : op.new = n) IN
            Cardinality(sharers) >= 2 =>
                Cardinality(ErrorsEqual([kind |-> "Duplicate target filename", name |-> n]))
                    = Cardinality(sharers)

\* C2 (amended): after validation the number of duplicate-target errors naming n
\* is one less than the number of operations whose new value is n (none when no
\* operation has it): every operation except the first of those sharing n is
\* flagged.
C2_AllButFirstSharerFlagged ==
    Validated =>
        \A n \in Names :
            LET sharers == OpsWith(LAMBDA op : op.new = n) IN
            Cardinality(ErrorsEqual([kind |-> "Duplicate target filename", name |-> n]))
                = IF sharers = {} THEN 0 ELSE Cardinality(sharers) - 1

\* C2 witness: a validated plan in which two operations share their new value.
C2_Witness ==
    /\ Validated
    /\ \E j, k \in 1..Len(operations) : j # k /\ operations[j].new = operations[k].new
    /\ \E k \in 1..Len(validationErrors) :
          validationErrors[k].kind = "Duplicate target filename"

\* C3: validation does not short-circuit: after it, the number of
\* unknown-original errors naming n is the number of operations whose original
\* is n when n is not in the snapshot, and zero when it is.
C3_OneUnknownOriginalErrorPerOperation ==
    Validated =>
        \A n \in Names :
            Cardinality(ErrorsEqual([kind |-> "Original file not found", name |-> n]))
                = IF n \in onlyFiles THEN 0
                  ELSE Cardinality(OpsWith(LAMBDA op : op.original = n))

\* C3 witness: a validated plan of two or more operations, every original absent
\* from the snapshot, one error per operation.
C3_Witness ==
    /\ Validated
    /\ Len(operations) >= 2
    /\ \A k \in 1..Len(operations) : operations[k].original \notin onlyFiles
    /\ Len(validationErrors) >= Len(operations)

\* C4 (as claimed): the source and the destination of every rename call are
\* entries directly inside the target directory.
C4_Original_RenamesStayInTargetDir ==
    \A k \in 1..Len(calls) :
        /\ Dirname(calls[k].oldPath) = TargetDir /\ Len(calls[k].oldPath) = Len(TargetDir) + 1
        /\ Dirname(calls[k].newPath) = TargetDir /\ Len(calls[k].newPath) = Len(TargetDir) + 1

\* C5 (as claimed): after validation every operation whose new value is empty or
\* contains a path separator is named by a validation error.
C5_Original_InvalidNewIsAnError ==
    Validated =>
        \A k \in 1..Len(operations) :
            Len(operations[k].new) # 1 => Flagged(operations[k], validationErrors)

Recreated(op) ==
    \E j \in 1..Len(operations) : IsPrefix(TargetPath(operations[j]), SourcePath(op))

C7_Original_FlaggedNeverRenamed ==
    Len(validationErrors) > 0 =>
        \A k \in 1..Len(calls) : ~Flagged(calls[k].op, validationErrors)

\* C7 (amended): when validation found errors and the user continued, the rename
\* loop runs over the whole plan: every operation, named by a validation error
\* or not, is passed to the rename call, in plan order.
C7_FlaggedRenamedToo ==
    (pc = "done" /\ result = "executed" /\ run = 1 /\ Len(validationErrors) > 0) =>
        /\ Len(calls) = Len(operations)
        /\ \A k \in 1..Len(operations) :
              /\ calls[k].op = operations[k]
              /\ Flagged(operations[k], validationErrors) =>
                    calls[k].oldPath = SourcePath(operations[k])

\* C7 witness: a run that continued after validation errors has ended, and a
\* flagged operation's rename was applied.
C7_Witness ==
    /\ pc = "done" /\ result = "executed" /\ run = 1
    /\ Len(validationErrors) > 0
    /\ \E k \in 1..Len(calls) : Flagged(calls[k].op, validationErrors) /\ calls[k].ok

ExistsOnDisk(n) == PathExists(PathJoin(TargetDir, n), files, dirs)

NoErrorCause ==
    /\ \A k \in 1..Len(operations) : operations[k].original \in onlyFiles
    /\ \A j, k \in 1..Len(operations) : j # k => operations[j].new # operations[k].new

C9_NoRenameBeforeConfirmation ==
    /\ confirm # "yes" => (calls = <<>> /\ files = files0 /\ pc # "rename")
    /\ (pc = "done" /\ result # "executed") =>
          /\ confirm # "yes"
          /\ {Basename(p) : p \in EntriesOf(TargetDir, files)} = onlyFiles

\* C9 witness: the user declined the final confirmation of a validated plan
\* that names an existing file.
C9_Witness ==
    /\ pc = "done" /\ result = "cancelled" /\ confirm = "no"
    /\ \E k \in 1..Len(operations) : operations[k].original \in onlyFiles

\* C10 (as claimed): when validation produced no error and no warning, the
\* executed plan destroys no file: every applied rename's destination was
\* absent when it was applied (or was the source itself), and there are as
\* many files after the run as before.
C10_Original_CleanPlanDestroysNothing ==
    (pc = "done" /\ result = "executed" /\ run = 1
        /\ validationErrors = <<>> /\ warnings = <<>>) =>
        /\ \A k \in 1..Len(calls) :
              calls[k].ok => (~calls[k].existed \/ calls[k].oldPath = calls[k].newPath)
        /\ Cardinality(files) = Cardinality(files0)

====
